---- MODULE Spec2Model ----
\* SuperReader: the hierarchy reconstruction of reader/build_html_tree.py
\* (find_and_attach_children driven by the classification oracle) and the
\* dependency-ordered summary evaluation that follows it.
EXTENDS Integers, Sequences, FiniteSets, TLC

\* ---------------------------------------------------------------- bounds
\* Longest flat candidate list handed to build_hierarchical_tree_iteratively.
MaxCands == 3
\* Longest "top_headers" list the oracle answers with.
MaxResp == 2
\* The oracle's indices range over -MaxNeg .. len(potential_children).
MaxNeg == 1

\* ------------------------------------------------------ program constants
\* @retry(stop=stop_after_attempt(3), ...) on get_child_titles_from_llm.
MaxAttempts == 3

\* Titles a scraped candidate can carry; "" is an untitled block.
Titles == {"", "Introduction", "Methods"}

\* None, as the value of Node._parent.
NoNode == -1

\* doc, the parent handed to the outermost find_and_attach_children.
Root == 0

VARIABLES
    title,      \* title[k]: title of candidate node k (k = 1..n), a sequence
    parent,     \* parent[x]: Node._parent of node x (NoNode for None)
    children,   \* children[x]: Node.children of node x, a sequence of nodes
    stack,      \* activation records of find_and_attach_children, top last
    attempts,   \* failed attempts of the oracle call in progress (tenacity)
    status,     \* "running" | "returned" | "error" (RetryError propagated)
    summary,    \* summary[x]: the Summary annotation of node x, if present
    pc,         \* pc[x]: where the worker running f on node x stands
    queue,      \* the nodes of the evaluator's current round
    retired,    \* the nodes the evaluator has retired
    eval_status, \* "idle" | "running" | "done" | "deadlock"
    stuck,      \* the nodes whose f is a stub that always returns false
    attrs,      \* attrs[x][k]: node x's annotation of kind k (Node.attrs)
    last_op,    \* the last annotation operation and whether it raised
    id_is_str,  \* whether Node.node_id is a str (a number otherwise)
    render_arg, \* the node render_to_json was called on (NoNode: not yet)
    wire,       \* the TreeData that render_to_json returned
    sparse,     \* where caselaw_sparse stands: pc, fragments, j, last_id
    rendering,  \* one call of Summary.render: its input and its Rendered
    worker,     \* worker.py: the pdf_papers cache, the calls made, the reply
    figures,    \* the nodes whose get_label() is "figure" or "table"
    oracle_calls, \* the calls of the classification oracle that returned
    content,    \* the length of node.content, per node
    post,       \* the post-processing pass of build_html_tree last run
    service     \* service_tree_gen.py: Redis, the fallback cache, requests

\* The state of the reconstruction, and the state of the evaluation.
recon_vars == <<stack, attempts, status>>
eval_vars == <<summary, pc, queue, retired, eval_status>>

\* The state that neither the reconstruction nor the evaluation writes.
attr_vars == <<attrs, last_op>>
ser_vars == <<id_is_str, render_arg, wire>>
post_vars == <<content, post>>

more_vars ==
    <<rendering, worker, figures, oracle_calls, post_vars, service>>
other_vars == <<stuck, attr_vars, ser_vars, sparse, more_vars>>

vars == <<title, parent, children, stack, attempts, status,
          summary, pc, queue, retired, eval_status, stuck,
          attrs, last_op, id_is_str, render_arg, wire, sparse,
          rendering, worker, figures, oracle_calls, content, post, service>>

\* No annotation operation is under way.
NoOp == [op |-> "none", node |-> 0, kind |-> "none", raised |-> FALSE]

\* treedata before any call of render_to_json.
NoWire == [metadata |-> [rootId |-> ""], nodeDict |-> <<>>]

\* The states of the components that take no part in a run.
TreeIdle == title = <<>> /\ parent = <<>> /\ children = <<>>

ReconIdle == stack = <<>> /\ attempts = 0 /\ status = "returned"

EvalIdle ==
    /\ summary = <<>>
    /\ pc = <<>>
    /\ queue = {}
    /\ retired = {}
    /\ eval_status = "idle"
    /\ stuck = {}

AttrIdle == attrs = <<>> /\ last_op = NoOp

SerIdle == id_is_str = FALSE /\ render_arg = NoNode /\ wire = NoWire

SparseIdle ==
    sparse = [pc |-> "idle", fragments |-> <<>>, j |-> 0, last_id |-> 0]

RenderIdle == rendering = [done |-> FALSE]

WorkerIdle == worker = [handled |-> 0]

NoFigures == figures = {}

NoCalls == oracle_calls = 0

PostIdle == content = <<>> /\ post = "idle"

ServiceIdle == service = [served |-> 0]

MoreIdle ==
    /\ RenderIdle
    /\ WorkerIdle
    /\ NoFigures
    /\ NoCalls
    /\ PostIdle
    /\ ServiceIdle

Unused == AttrIdle /\ SerIdle /\ SparseIdle /\ MoreIdle

Nodes == 0 .. Len(title)

Range(s) == {s[k] : k \in 1 .. Len(s)}

\* ------------------------------------------------------------ Node model
Tree == [parent |-> parent, children |-> children]

\* list without x.
Without(s, x) == SelectSeq(s, LAMBDA y : y # x)

\* Node.change_parent(new_parent): detach from the old parent's child list,
\* register in the new parent's child list, set the back-reference.
change_parent(T, node, new_parent) ==
    LET old == T.parent[node]
        detached == IF old = NoNode THEN T.children
                    ELSE [T.children EXCEPT ![old] = Without(@, node)]
    IN  [parent   |-> [T.parent EXCEPT ![node] = new_parent],
         children |-> [detached EXCEPT ![new_parent] = Append(@, node)]]

\* Mutant: the loop runs over the nodes from the last to the first.
RECURSIVE attach_all_reversed(_, _, _)
attach_all_reversed(T, nodes, parent_node) ==
    IF nodes = <<>> THEN T
    ELSE change_parent(attach_all_reversed(T, Tail(nodes), parent_node),
                       Head(nodes), parent_node)

\* for node in nodes: node.change_parent(parent_node)
RECURSIVE attach_all(_, _, _)
attach_all(T, nodes, parent_node) ==
    IF nodes = <<>> THEN T
    ELSE attach_all(change_parent(T, Head(nodes), parent_node),
                    Tail(nodes), parent_node)

\* Pre-order traversal of the subtree of x in T (children in list order),
\* cut at depth d so that it is defined on every value of the links.
RECURSIVE preorder(_, _, _)
RECURSIVE preorder_list(_, _, _)
preorder(T, x, d) ==
    IF d = 0 THEN <<x>> ELSE <<x>> \o preorder_list(T, T.children[x], d - 1)
preorder_list(T, xs, d) ==
    IF xs = <<>> THEN <<>>
    ELSE preorder(T, Head(xs), d) \o preorder_list(T, Tail(xs), d)

\* iter_subtree_with_dfs of x on the current tree.
Subtree(x) == preorder(Tree, x, Len(title) + 1)

\* ------------------------------------------------------- Python indexing
\* s[i] raises IndexError unless -len(s) <= i < len(s).
IndexOK(s, i) == -Len(s) <= i /\ i < Len(s)

\* s[i] for a Python index i (negative indices count from the end).
PyIndex(s, i) == IF i >= 0 THEN s[i + 1] ELSE s[Len(s) + i + 1]

\* s[a:b] of a Python list, 0 <= a, b <= len(s).
Slice(s, a, b) == IF a >= b THEN <<>> ELSE SubSeq(s, a + 1, b)

\* ------------------------------------------------- get_child_titles_from_llm
\* valid_titles = [node.title for node in potential_children]
valid_titles(potential_children) ==
    [k \in 1 .. Len(potential_children) |-> title[potential_children[k]]]

\* The list comprehension raises IndexError on an index Python rejects.
RaisesIndexError(potential_children, section_title_index) ==
    \E k \in 1 .. Len(section_title_index) :
        ~IndexOK(potential_children, section_title_index[k])

\* section_titles = [valid_titles[i] for i in section_title_index]
section_titles(potential_children, section_title_index) ==
    [k \in 1 .. Len(section_title_index) |->
        PyIndex(valid_titles(potential_children), section_title_index[k])]

\* What the oracle can put under "top_headers" for n candidates.
Responses(n) ==
    UNION {[1 .. k -> (-MaxNeg) .. n] : k \in 0 .. MaxResp}

\* -------------------------------------------------- find_and_attach_children
\* Mutant: only the first title of direct_child_titles is matched.
child_nodes_first_title_only(potential_children, direct_child_titles) ==
    SelectSeq([k \in 1 .. Len(potential_children) |-> k - 1],
              LAMBDA i : title[potential_children[i + 1]]
                             = direct_child_titles[1])

\* Step 2: indices (0-based, ascending) of the candidates whose title is in
\* direct_child_titles.
child_nodes_with_indices(potential_children, direct_child_titles) ==
    SelectSeq([k \in 1 .. Len(potential_children) |-> k - 1],
              LAMBDA i : title[potential_children[i + 1]]
                             \in Range(direct_child_titles))

Frame(parent_node, potential_children) ==
    [parent_node        |-> parent_node,
     potential_children |-> potential_children,
     pc                 |-> "call",
     returned           |-> {},
     cnwi               |-> <<>>,
     i                  |-> 0,
     nrec               |-> 0]

Top == stack[Len(stack)]

SetTop(f) == [stack EXCEPT ![Len(stack)] = f]

Running == status = "running" /\ stack # <<>>

\* if not potential_children: return
BaseCase ==
    /\ Running
    /\ Top.pc = "call"
    /\ Top.potential_children = <<>>
    /\ stack' = SetTop([Top EXCEPT !.pc = "ret"])
    /\ UNCHANGED <<title, parent, children, attempts, status,
                   eval_vars, other_vars>>

\* Mutant: stop_after_attempt(4), a fourth attempt follows three failures.
AttemptRaised_four ==
    /\ attempts' = attempts + 1
    /\ status' = IF attempts + 1 = MaxAttempts + 1 THEN "error" ELSE status
    /\ UNCHANGED <<title, parent, children, stack, eval_vars, other_vars>>

\* One attempt of get_child_titles_from_llm raised: tenacity retries it, and
\* after MaxAttempts attempts the error leaves find_and_attach_children.
AttemptRaised ==
    /\ attempts' = attempts + 1
    /\ status' = IF attempts + 1 = MaxAttempts THEN "error" ELSE status
    /\ UNCHANGED <<title, parent, children, stack, eval_vars, other_vars>>

\* Chat(...).complete raised, or the response has no "top_headers" key.
OracleFails ==
    /\ Running
    /\ Top.pc = "call"
    /\ Top.potential_children # <<>>
    /\ AttemptRaised

\* Steps 1 and 2 on a response the oracle gave: the titles looked up, the
\* no-section case, the title match and the leading candidates.
Classified(section_title_index) ==
    LET f == Top
        pcs == f.potential_children
        direct_child_titles == section_titles(pcs, section_title_index)
        cnwi == child_nodes_with_indices(pcs, direct_child_titles)
        got == [f EXCEPT !.returned = Range(section_title_index)]
    IN  IF direct_child_titles = <<>>
        THEN LET T == attach_all(Tree, pcs, f.parent_node)
             IN  /\ parent' = T.parent
                 /\ children' = T.children
                 /\ stack' = SetTop([got EXCEPT !.pc = "ret"])
        ELSE LET first_top_level_children_index == cnwi[1]
                 T == attach_all(Tree,
                                 Slice(pcs, 0, first_top_level_children_index),
                                 f.parent_node)
             IN  /\ parent' = T.parent
                 /\ children' = T.children
                 /\ stack' = SetTop([got EXCEPT !.pc = "loop",
                                                !.cnwi = cnwi,
                                                !.i = 0])

\* direct_child_titles = get_child_titles_from_llm(potential_children), for
\* an answer of the oracle out of the set answers.
OracleAnswers(answers) ==
    /\ Running
    /\ Top.pc = "call"
    /\ Top.potential_children # <<>>
    /\ \E section_title_index \in answers :
          IF RaisesIndexError(Top.potential_children, section_title_index)
          THEN AttemptRaised
          ELSE /\ Classified(section_title_index)
               /\ attempts' = 0
               /\ oracle_calls' = oracle_calls + 1
               /\ UNCHANGED <<title, status, eval_vars, stuck, attr_vars,
                              ser_vars, sparse, rendering, worker, figures,
                              post_vars, service>>

\* The call, for every answer the oracle can give.
OracleReplies == OracleAnswers(Responses(Len(Top.potential_children)))

\* Mutant: start_scope = original_index + 2, the scope loses its first node.
grandchildren_skip_first(f) ==
    LET start_scope == f.cnwi[f.i + 1] + 2
        end_scope == IF f.i + 1 < Len(f.cnwi) THEN f.cnwi[f.i + 2]
                     ELSE Len(f.potential_children)
    IN  Slice(f.potential_children, start_scope, end_scope)

\* Mutant: start_scope = original_index, the child is in its own scope.
grandchildren_with_self(f) ==
    LET start_scope == f.cnwi[f.i + 1]
        end_scope == IF f.i + 1 < Len(f.cnwi) THEN f.cnwi[f.i + 2]
                     ELSE Len(f.potential_children)
    IN  Slice(f.potential_children, start_scope, end_scope)

\* grandchildren_candidates = potential_children[start_scope:end_scope]
grandchildren_candidates(f) ==
    LET start_scope == f.cnwi[f.i + 1] + 1
        end_scope == IF f.i + 1 < Len(f.cnwi) THEN f.cnwi[f.i + 2]
                     ELSE Len(f.potential_children)
    IN  Slice(f.potential_children, start_scope, end_scope)

\* Step 3, one iteration: attach the child, recurse into its scope.
AttachChild ==
    /\ Running
    /\ Top.pc = "loop"
    /\ Top.i < Len(Top.cnwi)
    /\ LET f == Top
           child_node == f.potential_children[f.cnwi[f.i + 1] + 1]
           T == change_parent(Tree, child_node, f.parent_node)
           gc == grandchildren_candidates(f)
       IN  /\ parent' = T.parent
           /\ children' = T.children
           /\ IF gc # <<>>
              THEN stack' = Append(SetTop([f EXCEPT !.i = @ + 1,
                                                    !.nrec = @ + 1]),
                                   Frame(child_node, gc))
              ELSE stack' = SetTop([f EXCEPT !.i = @ + 1])
    /\ UNCHANGED <<title, attempts, status, eval_vars, other_vars>>

\* Mutant: remaining_nodes = potential_children[last_child_index:]
remaining_nodes_with_last(f) ==
    Slice(f.potential_children, f.cnwi[Len(f.cnwi)],
          Len(f.potential_children))

\* remaining_nodes = potential_children[last_child_index + 1:]
remaining_nodes(f) ==
    Slice(f.potential_children, f.cnwi[Len(f.cnwi)] + 1,
          Len(f.potential_children))

\* Step 4: the candidates after the last top-level child.
HandleRemaining ==
    /\ Running
    /\ Top.pc = "loop"
    /\ Top.i = Len(Top.cnwi)
    /\ LET f == Top
           last_child == f.potential_children[f.cnwi[Len(f.cnwi)] + 1]
           rem == remaining_nodes(f)
       IN  IF rem # <<>>
           THEN stack' = Append(SetTop([f EXCEPT !.pc = "ret",
                                                 !.nrec = @ + 1]),
                                Frame(last_child, rem))
           ELSE stack' = SetTop([f EXCEPT !.pc = "ret"])
    /\ UNCHANGED <<title, parent, children, attempts, status,
                   eval_vars, other_vars>>

\* The call returns to its caller; the outermost one to
\* build_hierarchical_tree_iteratively.
Return ==
    /\ Running
    /\ Top.pc = "ret"
    /\ stack' = SubSeq(stack, 1, Len(stack) - 1)
    /\ status' = IF Len(stack) = 1 THEN "returned" ELSE status
    /\ UNCHANGED <<title, parent, children, attempts, eval_vars, other_vars>>

\* worker.generate_from_html: tree_data = doc.render_to_json(), reached only
\* when build_html_tree returned its document.
WorkerRenders ==
    /\ status = "returned"
    /\ status' = "serialized"
    /\ UNCHANGED <<title, parent, children, stack, attempts,
                   eval_vars, other_vars>>

\* worker.generate_from_html: push_tree_data(tree_data, ...).
WorkerPushes ==
    /\ status = "serialized"
    /\ status' = "pushed"
    /\ UNCHANGED <<title, parent, children, stack, attempts,
                   eval_vars, other_vars>>

\* build_html_tree, lines 33-38: doc has lost its child list, the candidates
\* still name doc as their parent, and the reconstruction starts.
Init ==
    /\ \E n \in 0 .. MaxCands : title \in [1 .. n -> Titles]
    /\ parent = [x \in Nodes |-> IF x = Root THEN NoNode ELSE Root]
    /\ children = [x \in Nodes |-> <<>>]
    /\ stack = <<Frame(Root, [k \in 1 .. Len(title) |-> k])>>
    /\ attempts = 0
    /\ status = "running"
    /\ summary = <<>>
    /\ pc = <<>>
    /\ queue = {}
    /\ retired = {}
    /\ eval_status = "idle"
    /\ stuck = {}
    /\ Unused

Next ==
    \/ BaseCase
    \/ OracleFails
    \/ OracleReplies
    \/ AttachChild
    \/ HandleRemaining
    \/ Return
    \/ WorkerRenders
    \/ WorkerPushes

Spec == Init /\ [][Next]_vars

\* ------------------------------------------- a five-candidate document
\* The candidates A, B, C, D, E of one document, by node number, when each
\* is titled by its name.
Document == <<"A", "B", "C", "D", "E">>

\* The oracle of that document: [0, 2] for the full list, no top-level
\* header for [B], [0] for [D, E], and any answer for another list.
Script(potential_children) ==
    IF potential_children = <<1, 2, 3, 4, 5>> THEN {<<0, 2>>}
    ELSE IF potential_children = <<2>> THEN {<<>>}
    ELSE IF potential_children = <<4, 5>> THEN {<<0>>}
    ELSE Responses(Len(potential_children))

\* get_child_titles_from_llm with that oracle.
ScriptedReplies == OracleAnswers(Script(Top.potential_children))

\* build_html_tree, lines 33-38, on the five candidates: titled by their
\* names, or with any titles a document gives them.
InitDocument ==
    /\ title \in {Document} \cup [1 .. Len(Document) -> Titles]
    /\ parent = [x \in Nodes |-> IF x = Root THEN NoNode ELSE Root]
    /\ children = [x \in Nodes |-> <<>>]
    /\ stack = <<Frame(Root, [k \in 1 .. Len(title) |-> k])>>
    /\ attempts = 0
    /\ status = "running"
    /\ summary = <<>>
    /\ pc = <<>>
    /\ queue = {}
    /\ retired = {}
    /\ eval_status = "idle"
    /\ stuck = {}
    /\ Unused

\* The steps of the reconstruction; the base case is left out, no call on
\* an empty list is made when the document has candidates.
NextDocument ==
    \/ OracleFails
    \/ ScriptedReplies
    \/ AttachChild
    \/ HandleRemaining
    \/ Return
    \/ WorkerRenders
    \/ WorkerPushes

SpecDocument == InitDocument /\ [][NextDocument]_vars

\* ------------------------------------------------- the summary evaluation
\* build_html_tree, lines 64-66: node_map_with_dependency runs
\* generate_summary_for_node on every node of the tree, round after round.

\* Most nodes of a tree handed to the evaluation.
MaxEvalNodes == 3

\* n_workers=20 in the call of node_map_with_dependency.
n_workers == 20

\* Nodes 1..MaxEvalNodes can be in the tree; node x + MaxEvalNodes is the
\* paragraph node that summarising leaf x creates.
EvalDomain == 1 .. (2 * MaxEvalNodes)

\* new_children = PaperNode(None, label="paragraph"), made for leaf x.
Paragraph(x) == x + MaxEvalNodes

\* Python's None.
NoneValue == "<None>"

\* Summary not in node.attrs.
NoSummary ==
    [present |-> FALSE, content |-> "", short_content |-> "",
     points |-> FALSE]

\* Summary.__init__: content and short_content empty, no key points.
NewSummary ==
    [present |-> TRUE, content |-> "", short_content |-> "",
     points |-> FALSE]

\* Mutant: get returns a Summary that it does not store on the node.
get_attr_detached(S, x) == S

\* Summary.get(node): the node's Summary, constructed first when the node
\* has none (the callers assign to the result of get on a fresh node).
get_attr(S, x) == IF S[x].present THEN S ELSE [S EXCEPT ![x] = NewSummary]

\* The invocations of f that a worker is executing.
InProgress ==
    {x \in queue : pc[x] \in {"leaf_points", "leaf_title",
                              "section_points", "section_short"}}

\* Mutant: a child counts only when its summary has key points.
children_have_points(x) ==
    \A k \in 1 .. Len(children[x]) :
        summary[children[x][k]].present /\ summary[children[x][k]].points

\* for e in node.children: if Summary not in e.attrs: return False
children_have_summary(x) ==
    \A k \in 1 .. Len(children[x]) : summary[children[x][k]].present

\* Mutant: the node is annotated before its children are looked at.
StartWorker_annotate_first ==
    /\ eval_status = "running"
    /\ Cardinality(InProgress) < n_workers
    /\ \E x \in queue :
        /\ pc[x] = "idle"
        /\ IF x \in stuck
           THEN \* f is the stub on this node: return False.
                /\ pc' = [pc EXCEPT ![x] = "false"]
                /\ UNCHANGED summary
           ELSE IF x \in figures
           THEN \* Summary.get(node).content = None; return True
                /\ summary' = [get_attr(summary, x) EXCEPT
                                  ![x].content = NoneValue]
                /\ pc' = [pc EXCEPT ![x] = "true"]
           ELSE IF Len(children[x]) = 0
           THEN \* generate_summary_for_leaf_node: the prompt is built from
                \* Summary.get(node), then the key-points call is made.
                /\ summary' = get_attr(summary, x)
                /\ pc' = [pc EXCEPT ![x] = "leaf_points"]
           ELSE IF ~children_have_summary(x)
           THEN /\ pc' = [pc EXCEPT ![x] = "false"]
                /\ summary' = get_attr(summary, x)
           ELSE \* generate_summary_for_section_node: the children's
                \* summaries are read, then the key-points call is made.
                /\ pc' = [pc EXCEPT ![x] = "section_points"]
                /\ UNCHANGED summary
    /\ UNCHANGED <<title, parent, children, queue, retired, eval_status,
                   recon_vars,
                   other_vars>>

\* A worker takes node x of the round and runs generate_summary_for_node up
\* to its first oracle call or to "return False".
StartWorker ==
    /\ eval_status = "running"
    /\ Cardinality(InProgress) < n_workers
    /\ \E x \in queue :
        /\ pc[x] = "idle"
        /\ IF x \in stuck
           THEN \* f is the stub on this node: return False.
                /\ pc' = [pc EXCEPT ![x] = "false"]
                /\ UNCHANGED summary
           ELSE IF x \in figures
           THEN \* Summary.get(node).content = None; return True
                /\ summary' = [get_attr(summary, x) EXCEPT
                                  ![x].content = NoneValue]
                /\ pc' = [pc EXCEPT ![x] = "true"]
           ELSE IF Len(children[x]) = 0
           THEN \* generate_summary_for_leaf_node: the prompt is built from
                \* Summary.get(node), then the key-points call is made.
                /\ summary' = get_attr(summary, x)
                /\ pc' = [pc EXCEPT ![x] = "leaf_points"]
           ELSE IF ~children_have_summary(x)
           THEN /\ pc' = [pc EXCEPT ![x] = "false"]
                /\ UNCHANGED summary
           ELSE \* generate_summary_for_section_node: the children's
                \* summaries are read, then the key-points call is made.
                /\ pc' = [pc EXCEPT ![x] = "section_points"]
                /\ UNCHANGED summary
    /\ UNCHANGED <<title, parent, children, queue, retired, eval_status,
                   recon_vars,
                   other_vars>>

\* Leaf, lines 119-129: the key-points call returns or raises.
LeafPointsReturn ==
    /\ eval_status = "running"
    /\ \E x \in queue : \E ok \in BOOLEAN :
        /\ pc[x] = "leaf_points"
        /\ IF ok
           THEN /\ summary' = [get_attr(summary, x) EXCEPT
                                  ![x].points = TRUE,
                                  ![Paragraph(x)] = NewSummary]
                /\ children' = [children EXCEPT
                                   ![x] = Append(@, Paragraph(x))]
                /\ parent' = [parent EXCEPT ![Paragraph(x)] = x]
           ELSE /\ summary' = [get_attr(summary, x) EXCEPT
                                  ![x].content = "Failed to generate summary"]
                /\ UNCHANGED <<parent, children>>
        /\ pc' = [pc EXCEPT ![x] = IF title[x] = "" THEN "leaf_title"
                                   ELSE "true"]
    /\ UNCHANGED <<title, queue, retired, eval_status, recon_vars,
                   other_vars>>

\* Leaf, lines 140-142: the title call returns, or raises out of f.
LeafTitleReturn ==
    /\ eval_status = "running"
    /\ \E x \in queue : \E ok \in BOOLEAN :
        /\ pc[x] = "leaf_title"
        /\ IF ok
           THEN /\ title' = [title EXCEPT ![x] = "Generated"]
                /\ pc' = [pc EXCEPT ![x] = "true"]
           ELSE /\ pc' = [pc EXCEPT ![x] = "raised"]
                /\ UNCHANGED title
    /\ UNCHANGED <<parent, children, summary, queue, retired, eval_status,
                   recon_vars,
                   other_vars>>

\* Section, lines 75-90: the key-points call returns or raises.
SectionPointsReturn ==
    /\ eval_status = "running"
    /\ \E x \in queue : \E ok \in BOOLEAN :
        /\ pc[x] = "section_points"
        /\ summary' = IF ok
                      THEN [get_attr(summary, x) EXCEPT ![x].points = TRUE]
                      ELSE [get_attr(summary, x) EXCEPT
                               ![x].content = "Failed to generate summary"]
        /\ pc' = [pc EXCEPT ![x] = "section_short"]
    /\ UNCHANGED <<title, parent, children, queue, retired, eval_status,
                   recon_vars,
                   other_vars>>

\* Section, lines 102-104: the short-summary call returns, or raises out
\* of f.
SectionShortReturn ==
    /\ eval_status = "running"
    /\ \E x \in queue : \E ok \in BOOLEAN :
        /\ pc[x] = "section_short"
        /\ IF ok
           THEN /\ summary' = [get_attr(summary, x) EXCEPT
                                  ![x].short_content = "short"]
                /\ pc' = [pc EXCEPT ![x] = "true"]
           ELSE /\ pc' = [pc EXCEPT ![x] = "raised"]
                /\ UNCHANGED summary
    /\ UNCHANGED <<title, parent, children, queue, retired, eval_status,
                   recon_vars,
                   other_vars>>

\* Mutant: a round that retires nothing is followed by another round.
EndRound_spin ==
    /\ eval_status = "running"
    /\ \A x \in queue : pc[x] \in {"true", "false", "raised"}
    /\ LET done == {x \in queue : pc[x] # "false"}
           again == queue \ done
       IN  /\ retired' = retired \cup done
           /\ queue' = again
           /\ pc' = [x \in EvalDomain |->
                        IF x \in again THEN "idle" ELSE pc[x]]
           /\ summary' = [x \in EvalDomain |->
                            IF x \in queue /\ pc[x] = "raised"
                            THEN [get_attr(summary, x)[x] EXCEPT
                                     !.content = "Failed to generate summary"]
                            ELSE summary[x]]
           /\ eval_status' = IF again = {} THEN "done" ELSE "running"
    /\ UNCHANGED <<title, parent, children, recon_vars,
                   other_vars>>

\* node_map_with_dependency, the end of a round: the nodes whose f returned
\* true are retired (an error out of f is caught and counts as true, with a
\* failure annotation), the others form the next round; a round that
\* retires nothing ends the evaluation with DependencyDeadlock.
EndRound ==
    /\ eval_status = "running"
    /\ \A x \in queue : pc[x] \in {"true", "false", "raised"}
    /\ LET done == {x \in queue : pc[x] # "false"}
           again == queue \ done
       IN  /\ retired' = retired \cup done
           /\ queue' = again
           /\ pc' = [x \in EvalDomain |->
                        IF x \in again THEN "idle" ELSE pc[x]]
           /\ summary' = [x \in EvalDomain |->
                            IF x \in queue /\ pc[x] = "raised"
                            THEN [get_attr(summary, x)[x] EXCEPT
                                     !.content = "Failed to generate summary"]
                            ELSE summary[x]]
           /\ eval_status' = IF again = {} THEN "done"
                             ELSE IF done = {} THEN "deadlock"
                             ELSE "running"
    /\ UNCHANGED <<title, parent, children, recon_vars,
                   other_vars>>

\* The child list of x in a tree given by its parent links: ascending ids.
child_list(par, n, x) ==
    SelectSeq([k \in 1 .. MaxEvalNodes |-> k],
              LAMBDA k : k \in 2 .. n /\ par[k] = x)

\* The evaluation starts on a tree of n nodes rooted at node 1, any shape,
\* any of its nodes untitled, no node annotated; the round holds every node.
InitEval ==
    /\ \E n \in 1 .. MaxEvalNodes :
       \E par \in [2 .. n -> 1 .. n] :
       \E untitled \in SUBSET (1 .. n) :
         /\ \A k \in 2 .. n : par[k] < k
         /\ parent = [x \in EvalDomain |->
                         IF x \in 2 .. n THEN par[x] ELSE NoNode]
         /\ children = [x \in EvalDomain |-> child_list(par, n, x)]
         /\ title = [x \in EvalDomain |->
                        IF x \in untitled \/ x > n THEN "" ELSE "Results"]
         /\ queue = 1 .. n
    /\ summary = [x \in EvalDomain |-> NoSummary]
    /\ pc = [x \in EvalDomain |-> "idle"]
    /\ retired = {}
    /\ eval_status = "running"
    /\ stack = <<>>
    /\ attempts = 0
    /\ status = "returned"
    /\ stuck = {}
    /\ Unused

NextEval ==
    \/ StartWorker
    \/ LeafPointsReturn
    \/ LeafTitleReturn
    \/ SectionPointsReturn
    \/ SectionShortReturn
    \/ EndRound

SpecEval == InitEval /\ [][NextEval]_vars

\* build_summary.py, lines 32-47: the same evaluation in the pipeline whose
\* f answers for a figure or a table at once. One node of the tree is a
\* figure or a table.
InitLabelled ==
    /\ \E n \in 1 .. MaxEvalNodes :
       \E par \in [2 .. n -> 1 .. n] :
       \E untitled \in SUBSET (1 .. n) :
         /\ \A k \in 2 .. n : par[k] < k
         /\ parent = [x \in EvalDomain |->
                         IF x \in 2 .. n THEN par[x] ELSE NoNode]
         /\ children = [x \in EvalDomain |-> child_list(par, n, x)]
         /\ title = [x \in EvalDomain |->
                        IF x \in untitled \/ x > n THEN "" ELSE "Results"]
         /\ queue = 1 .. n
         /\ \E x \in 1 .. n : figures = {x}
    /\ summary = [x \in EvalDomain |-> NoSummary]
    /\ pc = [x \in EvalDomain |-> "idle"]
    /\ retired = {}
    /\ eval_status = "running"
    /\ stack = <<>>
    /\ attempts = 0
    /\ status = "returned"
    /\ stuck = {}
    /\ AttrIdle
    /\ SerIdle
    /\ SparseIdle
    /\ RenderIdle
    /\ WorkerIdle
    /\ NoCalls
    /\ PostIdle
    /\ ServiceIdle

SpecLabelled == InitLabelled /\ [][NextEval]_vars

\* The worker pool keeps running: an invocation that can start starts, an
\* oracle call returns or raises, a finished round is closed.
FairSpecEval == SpecEval /\ WF_vars(NextEval)

\* The evaluation of a tree in which f is, on some nodes, a stub that
\* returns false on every invocation.
InitStub ==
    /\ \E n \in 1 .. MaxEvalNodes :
       \E par \in [2 .. n -> 1 .. n] :
       \E untitled \in SUBSET (1 .. n) :
         /\ \A k \in 2 .. n : par[k] < k
         /\ parent = [x \in EvalDomain |->
                         IF x \in 2 .. n THEN par[x] ELSE NoNode]
         /\ children = [x \in EvalDomain |-> child_list(par, n, x)]
         /\ title = [x \in EvalDomain |->
                        IF x \in untitled \/ x > n THEN "" ELSE "Results"]
         /\ queue = 1 .. n
         /\ stuck \in (SUBSET (1 .. n)) \ {{}}
    /\ summary = [x \in EvalDomain |-> NoSummary]
    /\ pc = [x \in EvalDomain |-> "idle"]
    /\ retired = {}
    /\ eval_status = "running"
    /\ stack = <<>>
    /\ attempts = 0
    /\ status = "returned"
    /\ Unused

SpecStub == InitStub /\ [][NextEval]_vars

FairSpecStub == SpecStub /\ WF_vars(NextEval)

\* ------------------------------------------------------- the annotations
\* tree/node_attr/base.py: an annotation registers itself in node.attrs
\* under its class when it is constructed.

\* Most nodes that annotations are attached to.
MaxAttrNodes == 2

AttrNodes == 1 .. MaxAttrNodes

\* class Reference(Attr), class Relevant(Attr)
Kinds == {"Reference", "Relevant"}

\* The lists a caller passes as contents or as relevant nodes.
Contents == {<<>>, <<"a">>, <<"b">>}

\* cls not in node.attrs; made counts the constructions that registered.
NoAttr == [present |-> FALSE, value |-> <<>>, made |-> 0]

\* Mutant: Attr.__init__ without the membership test, the new annotation
\* replaces the one the node carries.
Attr_init_overwrite(A, node, kind) ==
    [raised |-> FALSE,
     attrs |-> [A EXCEPT ![node][kind] =
                   [present |-> TRUE, value |-> <<>>,
                    made |-> IF @.made < 2 THEN @.made + 1 ELSE 2]]]

\* Attr.__init__ followed by the subclass's own __init__ (contents = [],
\* relevant = []): raises when the node has an annotation of the class,
\* registers the new one otherwise.
Attr_init(A, node, kind) ==
    IF A[node][kind].present
    THEN [raised |-> TRUE, attrs |-> A]
    ELSE [raised |-> FALSE,
          attrs |-> [A EXCEPT ![node][kind] =
                        [present |-> TRUE, value |-> <<>>,
                         made |-> @.made + 1]]]

\* Reference(node), Relevant(node): a bare construction.
Construct ==
    \E node \in AttrNodes : \E kind \in Kinds :
        LET r == Attr_init(attrs, node, kind)
        IN  /\ attrs' = r.attrs
            /\ last_op' = [op |-> "construct", node |-> node,
                           kind |-> kind, raised |-> r.raised]
            /\ UNCHANGED <<title, parent, children, recon_vars, eval_vars,
                           stuck, ser_vars, sparse, more_vars>>

\* set_reference_obj(node, contents): ref_data = Reference(node), then
\* ref_data.contents = contents when the construction did not raise.
set_reference_obj ==
    \E node \in AttrNodes : \E contents \in Contents :
        LET r == Attr_init(attrs, node, "Reference")
        IN  /\ attrs' = IF r.raised THEN r.attrs
                        ELSE [r.attrs EXCEPT
                                 ![node]["Reference"].value = contents]
            /\ last_op' = [op |-> "set_reference_obj", node |-> node,
                           kind |-> "Reference", raised |-> r.raised]
            /\ UNCHANGED <<title, parent, children, recon_vars, eval_vars,
                           stuck, ser_vars, sparse, more_vars>>

\* set_relevant_obj(node, relevant): constructs when the node has no
\* Relevant annotation, updates the one it has otherwise.
set_relevant_obj ==
    \E node \in AttrNodes : \E relevant \in Contents :
        /\ IF ~attrs[node]["Relevant"].present
           THEN LET r == Attr_init(attrs, node, "Relevant")
                IN  /\ attrs' = IF r.raised THEN r.attrs
                                ELSE [r.attrs EXCEPT
                                         ![node]["Relevant"].value = relevant]
                    /\ last_op' = [op |-> "set_relevant_obj",
                                   node |-> node, kind |-> "Relevant",
                                   raised |-> r.raised]
           ELSE /\ attrs' = [attrs EXCEPT
                                ![node]["Relevant"].value = relevant]
                /\ last_op' = [op |-> "update", node |-> node,
                               kind |-> "Relevant", raised |-> FALSE]
        /\ UNCHANGED <<title, parent, children, recon_vars, eval_vars,
                       stuck, ser_vars, sparse, more_vars>>

\* Fresh nodes: no annotation on any of them.
InitAttr ==
    /\ attrs = [x \in AttrNodes |-> [k \in Kinds |-> NoAttr]]
    /\ last_op = NoOp
    /\ TreeIdle
    /\ ReconIdle
    /\ EvalIdle
    /\ SerIdle
    /\ SparseIdle
    /\ MoreIdle

NextAttr ==
    \/ Construct
    \/ set_reference_obj
    \/ set_relevant_obj

SpecAttr == InitAttr /\ [][NextAttr]_vars

\* -------------------------------------------------------- the serializer
\* tree/forest.py: Renderer.render_to_json(node) renders the subtree of a
\* node and flattens it into a dictionary keyed by the nodes' ids.

\* Most nodes of a tree handed to the serializer.
MaxWireNodes == 4

\* str(node_id): the decimal text of the id.
str(x) == ToString(x)

\* JSON null, the parent field of a node whose _parent is None.
Null == "null"

\* Mutant: Renderer.render leaves out the last child of every node.
RECURSIVE render_without_last(_)
render_without_last(node) ==
    [node |-> node,
     title |-> title[node],
     children |-> [k \in 1 .. (Len(children[node]) - 1) |->
                      render_without_last(children[node][k])]]

\* Renderer.render: the Rendered of a node, with the Rendered of each child
\* appended in child-list order.
RECURSIVE render(_)
render(node) ==
    [node |-> node,
     title |-> title[node],
     children |-> [k \in 1 .. Len(children[node]) |->
                      render(children[node][k])]]

\* Rendered.to_json_without_children: the record of one node.
to_json_without_children(r) ==
    LET children_ids == [k \in 1 .. Len(r.children) |->
                            str(r.children[k].node)]
        parent_id == IF parent[r.node] # NoNode THEN str(parent[r.node])
                     ELSE Null
    IN  [title |-> r.title,
         children |-> children_ids,
         id |-> str(r.node),
         parent |-> parent_id]

\* self.node.node_id in node_dict: the keys are strings, so a numeric id is
\* never among them.
node_id_in(x, node_dict) == id_is_str /\ str(x) \in DOMAIN node_dict

\* Rendered.to_json: a node already in the dictionary is skipped; otherwise
\* the children are flattened first, then the node's record is stored.
RECURSIVE to_json(_, _)
RECURSIVE to_json_children(_, _, _)
to_json(r, node_dict) ==
    IF node_id_in(r.node, node_dict) THEN node_dict
    ELSE (str(r.node) :> to_json_without_children(r))
             @@ to_json_children(r.children, 1, node_dict)

to_json_children(rs, k, node_dict) ==
    IF k > Len(rs) THEN node_dict
    ELSE to_json_children(rs, k + 1, to_json(rs[k], node_dict))

\* Renderer.render_to_json
render_to_json(node) ==
    [metadata |-> [rootId |-> str(node)],
     nodeDict |-> to_json(render(node), <<>>)]

\* A caller serializes the subtree of a node of the tree.
RenderToJson ==
    /\ \E node \in DOMAIN title :
          /\ render_arg' = node
          /\ wire' = render_to_json(node)
    /\ UNCHANGED <<title, parent, children, recon_vars, eval_vars, stuck,
                   attr_vars, id_is_str, sparse, more_vars>>

\* The child list of x in a tree of n nodes given by its parent links.
wire_child_list(par, n, x) ==
    SelectSeq([k \in 1 .. MaxWireNodes |-> k],
              LAMBDA k : k \in 2 .. n /\ par[k] = x)

\* A tree of n nodes rooted at node 1, any shape, any of its nodes
\* untitled, not yet serialized.
InitForest ==
    /\ \E n \in 1 .. MaxWireNodes :
       \E par \in [2 .. n -> 1 .. n] :
       \E untitled \in SUBSET (1 .. n) :
         /\ \A k \in 2 .. n : par[k] < k
         /\ parent = [x \in 1 .. n |->
                         IF x \in 2 .. n THEN par[x] ELSE NoNode]
         /\ children = [x \in 1 .. n |-> wire_child_list(par, n, x)]
         /\ title = [x \in 1 .. n |->
                        IF x \in untitled THEN "" ELSE "Results"]
    /\ id_is_str \in BOOLEAN
    /\ render_arg = NoNode
    /\ wire = NoWire
    /\ ReconIdle
    /\ EvalIdle
    /\ AttrIdle
    /\ SparseIdle
    /\ MoreIdle

NextForest == RenderToJson

SpecForest == InitForest /\ [][NextForest]_vars

\* ------------------------------------------------- the caselaw sparsifier
\* reader/sparsify.py, caselaw_sparse(child): the segments of a chapter are
\* regrouped under fragment nodes by rewriting the child lists.

\* Most segments of a chapter, most fragments the oracle returns.
MaxSegments == 4
MaxFragments == 2

\* Node.add_child: the node is appended to the child list and gets the
\* parent as its back-reference.
add_child(T, parent_node, node) ==
    [parent |-> [T.parent EXCEPT ![node] = parent_node],
     children |-> [T.children EXCEPT ![parent_node] = Append(@, node)]]

\* node._children = child.children()[last_id:id+1]
fragment_children(T, child, node, last_id, id) ==
    [parent |-> T.parent,
     children |-> [T.children EXCEPT
                      ![node] = Slice(T.children[child], last_id, id + 1)]]

\* Lines 40-44, one iteration: the fragment gets a slice of the chapter's
\* child list (generate_summary_for_node then writes its annotation only).
SparseAssign ==
    /\ sparse.pc = "assign"
    /\ LET fr == sparse.fragments[sparse.j + 1]
           T == fragment_children(Tree, Root, fr.node, sparse.last_id, fr.id)
       IN  /\ parent' = T.parent
           /\ children' = T.children
           /\ sparse' = [sparse EXCEPT
                            !.last_id = fr.id + 1,
                            !.j = IF sparse.j + 1 = Len(sparse.fragments)
                                  THEN 0 ELSE sparse.j + 1,
                            !.pc = IF sparse.j + 1 = Len(sparse.fragments)
                                   THEN "clear" ELSE "assign"]
    /\ UNCHANGED <<title, recon_vars, eval_vars, stuck, attr_vars, ser_vars,
                   more_vars>>

\* Line 45: child._children = []
SparseClear ==
    /\ sparse.pc = "clear"
    /\ children' = [children EXCEPT ![Root] = <<>>]
    /\ sparse' = [sparse EXCEPT !.pc = "add"]
    /\ UNCHANGED <<title, parent, recon_vars, eval_vars, stuck, attr_vars,
                   ser_vars, more_vars>>

\* Lines 46-47, one iteration: child.add_child(node)
SparseAdd ==
    /\ sparse.pc = "add"
    /\ LET fr == sparse.fragments[sparse.j + 1]
           T == add_child(Tree, Root, fr.node)
       IN  /\ parent' = T.parent
           /\ children' = T.children
           /\ sparse' = [sparse EXCEPT
                            !.j = sparse.j + 1,
                            !.pc = IF sparse.j + 1 = Len(sparse.fragments)
                                   THEN "done" ELSE "add"]
    /\ UNCHANGED <<title, recon_vars, eval_vars, stuck, attr_vars, ser_vars,
                   more_vars>>

\* caselaw_sparse(child) after get_break_points: the chapter (node 0) has k
\* leaf segments, the oracle returned m break points whose ids are segment
\* positions, and each fragment is a fresh node.
InitSparse ==
    /\ \E k \in 1 .. MaxSegments : \E m \in 1 .. MaxFragments :
       \E ids \in [1 .. m -> 0 .. (k - 1)] :
         /\ title = [x \in 1 .. (k + m) |->
                        IF x <= k THEN "" ELSE "Introduction"]
         /\ parent = [x \in 0 .. (k + m) |->
                         IF x \in 1 .. k THEN Root ELSE NoNode]
         /\ children = [x \in 0 .. (k + m) |->
                           IF x = Root THEN [s \in 1 .. k |-> s] ELSE <<>>]
         /\ sparse = [pc |-> "assign",
                      fragments |-> [f \in 1 .. m |->
                                        [node |-> k + f, id |-> ids[f]]],
                      j |-> 0,
                      last_id |-> 0]
    /\ ReconIdle
    /\ EvalIdle
    /\ AttrIdle
    /\ SerIdle
    /\ MoreIdle

NextSparse ==
    \/ SparseAssign
    \/ SparseClear
    \/ SparseAdd

SpecSparse == InitSparse /\ [][NextSparse]_vars

\* ------------------------------------------------- the summary rendering
\* reader/summary.py, Summary.render(rendered): the annotation fills the
\* tabs, tools and data of the node's Rendered.

\* Most key points of a summary.
MaxPoints == 2

\* A key that a dictionary does not have.
Absent == "<absent>"

\* node.content of the rendered node.
NodeContents == {"", "text", "a<b"}

\* Summary.content: None, empty, the failure placeholder or a summary.
SummaryContents ==
    {NoneValue, "", "Failed to generate summary", "A summary"}

\* Summary.summaries_with_evidence: the points, as their "point" texts.
PointLists ==
    UNION {[1 .. n -> {"p", "q"}] : n \in 0 .. MaxPoints}

\* html.escape on the contents of the model.
escape(s) == IF s = "a<b" THEN "a&lt;b" ELSE s

\* f"<HTMLContent html='{html.escape(self.node.content)}'/>"
HTMLContent(s) == "<HTMLContent html='" \o escape(s) \o "'/>"

\* "".join of the <li> items of get_summary_for_display.
RECURSIVE list_items(_)
list_items(points) ==
    IF points = <<>> THEN ""
    ELSE "<li>" \o Head(points) \o "</li>" \o list_items(Tail(points))

\* Summary.get_summary_for_display
get_summary_for_display(s) ==
    IF s.content # "" THEN s.content
    ELSE IF Len(s.summaries_with_evidence) > 0
    THEN "<ul>" \o list_items(s.summaries_with_evidence) \o "</ul>"
    ELSE NoneValue

\* Rendered.__init__: tabs = {}, tools = [{}, {}], data = {}
NewRendered ==
    [tabs |-> [summary |-> Absent, content |-> Absent],
     tools1 |-> [content |-> Absent],
     data |-> [short_summary |-> Absent]]

\* Summary.render, lines 75-87.
Summary_render(node_content, s, rendered) ==
    IF s.content = NoneValue THEN rendered
    ELSE LET r1 == IF Len(node_content) > 0
                   THEN IF Len(s.summaries_with_evidence) > 0
                        THEN [rendered EXCEPT
                                 !.tabs.summary = get_summary_for_display(s),
                                 !.tools1.content = HTMLContent(node_content)]
                        ELSE [rendered EXCEPT
                                 !.tabs.content = HTMLContent(node_content)]
                   ELSE [rendered EXCEPT
                            !.tabs.summary = get_summary_for_display(s)]
         IN  IF s.short_content # ""
             THEN [r1 EXCEPT !.data.short_summary = s.short_content]
             ELSE r1

\* Renderer.node_handler calls render of the node's Summary.
RenderSummary ==
    /\ ~rendering.done
    /\ rendering' = [rendering EXCEPT
                        !.done = TRUE,
                        !.rendered = Summary_render(rendering.node_content,
                                                    rendering.summary,
                                                    rendering.rendered)]
    /\ UNCHANGED <<title, parent, children, recon_vars, eval_vars, stuck,
                   attr_vars, ser_vars, sparse, worker, figures,
                   oracle_calls, post_vars, service>>

\* A node with any content and a Summary with any fields, not yet rendered.
InitRender ==
    /\ \E node_content \in NodeContents :
       \E summary_content \in SummaryContents :
       \E short_content \in {"", "short"} :
       \E points \in PointLists :
         rendering = [done |-> FALSE,
                      node_content |-> node_content,
                      summary |-> [content |-> summary_content,
                                   short_content |-> short_content,
                                   summaries_with_evidence |-> points],
                      rendered |-> NewRendered]
    /\ TreeIdle
    /\ ReconIdle
    /\ EvalIdle
    /\ AttrIdle
    /\ SerIdle
    /\ SparseIdle
    /\ WorkerIdle
    /\ NoFigures
    /\ NoCalls
    /\ PostIdle
    /\ ServiceIdle

NextRender == RenderSummary

SpecRender == InitRender /\ [][NextRender]_vars

\* ------------------------------------------------ the worker's cache
\* reader/worker.py, generate_from_html: the handler has no await, so the
\* requests of the one server process are handled one after the other.

\* Most requests handled, and the file_urls they ask for.
MaxRequests == 4
FileUrls == {"u1", "u2"}

\* tree_url = f"{forest_host}?id={tree_id}"
tree_url_of(tree_id) == "host?id=" \o ToString(tree_id)

\* Mutant: the lookup finds nothing.
find_one_nothing(collection, file_url) == <<>>

\* cache_collection.find_one({"file_url": ...}): the first stored entry of
\* the file_url, or None (the empty sequence).
find_one(collection, file_url) ==
    IF collection[file_url] = <<>> THEN <<>>
    ELSE <<Head(collection[file_url])>>

\* cache_collection.insert_one({... "file_url", "tree_url" ...})
insert_one(collection, file_url, tree_url) ==
    [collection EXCEPT ![file_url] = Append(@, tree_url)]

\* One request handled from its first line to its response: a hit answers
\* from the cache; a miss builds, renders, pushes and stores, and an error
\* of build_html_tree or push_tree_data is re-raised (lines 157-162).
generate_from_html ==
    /\ worker.handled < MaxRequests
    /\ \E file_url \in FileUrls : \E built \in BOOLEAN, pushed \in BOOLEAN :
        LET cached_result == find_one(worker.pdf_papers, file_url)
            tree_id == worker.next_tree_id
            tree_url == tree_url_of(tree_id)
            w == [worker EXCEPT !.handled = @ + 1]
        IN  IF cached_result # <<>>
            THEN worker' = [w EXCEPT
                               !.reply = [file_url |-> file_url,
                                          status |-> "success",
                                          tree_url |-> cached_result[1],
                                          cached |-> TRUE]]
            ELSE IF ~built
            THEN worker' = [w EXCEPT
                               !.builds[file_url] = @ + 1,
                               !.reply = [file_url |-> file_url,
                                          status |-> "error",
                                          tree_url |-> "",
                                          cached |-> FALSE]]
            ELSE IF ~pushed
            THEN worker' = [w EXCEPT
                               !.builds[file_url] = @ + 1,
                               !.pushes[file_url] = @ + 1,
                               !.reply = [file_url |-> file_url,
                                          status |-> "error",
                                          tree_url |-> "",
                                          cached |-> FALSE]]
            ELSE worker' = [w EXCEPT
                               !.builds[file_url] = @ + 1,
                               !.pushes[file_url] = @ + 1,
                               !.next_tree_id = @ + 1,
                               !.pdf_papers = insert_one(@, file_url,
                                                         tree_url),
                               !.reply = [file_url |-> file_url,
                                          status |-> "success",
                                          tree_url |-> tree_url,
                                          cached |-> FALSE]]
    /\ UNCHANGED <<title, parent, children, recon_vars, eval_vars, stuck,
                   attr_vars, ser_vars, sparse, rendering, figures,
                   oracle_calls, post_vars, service>>

\* The server has started: the cache is empty, no request was handled.
InitWorker ==
    /\ worker = [handled |-> 0,
                 pdf_papers |-> [u \in FileUrls |-> <<>>],
                 builds |-> [u \in FileUrls |-> 0],
                 pushes |-> [u \in FileUrls |-> 0],
                 next_tree_id |-> 1,
                 reply |-> [file_url |-> "", status |-> "",
                            tree_url |-> "", cached |-> FALSE]]
    /\ TreeIdle
    /\ ReconIdle
    /\ EvalIdle
    /\ AttrIdle
    /\ SerIdle
    /\ SparseIdle
    /\ RenderIdle
    /\ NoFigures
    /\ NoCalls
    /\ PostIdle
    /\ ServiceIdle

NextWorker == generate_from_html

SpecWorker == InitWorker /\ [][NextWorker]_vars

\* ------------------------------------------ the post-processing passes
\* build_html_tree, lines 41-62, on the tree that the reconstruction
\* returned. node.content is kept by its length.

\* Most candidates of a reconstructed tree handed to the passes.
MaxPostNodes == 3

\* small_node_limit = 1000
small_node_limit == 1000

\* len("<br/>")
br == 5

\* The lengths of node.content before the passes: empty, short, long.
ContentLens == {0, 10, small_node_limit}

\* x and its ancestors under the parent links par.
RECURSIVE Chain(_, _)
Chain(par, x) == IF x = Root THEN {Root} ELSE {x} \cup Chain(par, par[x])

\* The document node has its own title; the others are the candidates.
title_of(x) == IF x = Root THEN "Document" ELSE title[x]

\* Node.remove_self(): detach the node, clearing both sides of the link.
remove_self(T, node) ==
    LET old == T.parent[node]
    IN  [parent   |-> [T.parent EXCEPT ![node] = NoNode],
         children |-> IF old = NoNode THEN T.children
                      ELSE [T.children EXCEPT ![old] = Without(@, node)]]

\* Lines 44-52, for the child list xs of one node, from position i on: an
\* untitled child shorter than the limit, followed by an untitled sibling,
\* is prepended to the sibling and emptied.
RECURSIVE merge_children(_, _, _)
merge_children(C, xs, i) ==
    IF i >= Len(xs) THEN C
    ELSE IF /\ title_of(xs[i]) = ""
            /\ title_of(xs[i + 1]) = ""
            /\ C[xs[i]] < small_node_limit
         THEN merge_children([C EXCEPT ![xs[i + 1]] = C[xs[i]] + br + @,
                                       ![xs[i]] = 0],
                             xs, i + 1)
         ELSE merge_children(C, xs, i + 1)

\* Lines 41-52: the merge, node after node of the traversal.
RECURSIVE merge_pass(_, _)
merge_pass(C, nodes) ==
    IF nodes = <<>> THEN C
    ELSE merge_pass(merge_children(C, children[Head(nodes)], 1),
                    Tail(nodes))

\* Lines 54-56, over the list of nodes taken before the loop: a node
\* without title, content and children is removed.
RECURSIVE remove_pass(_, _)
remove_pass(T, nodes) ==
    IF nodes = <<>> THEN T
    ELSE LET node == Head(nodes)
         IN  IF /\ title_of(node) = ""
                /\ content[node] = 0
                /\ T.children[node] = <<>>
             THEN remove_pass(remove_self(T, node), Tail(nodes))
             ELSE remove_pass(T, Tail(nodes))

\* Lines 58-62, over the list of nodes taken before the loop: a node whose
\* one child is a leaf takes the child's content, and the child is removed.
RECURSIVE collapse_pass(_, _, _)
collapse_pass(T, C, nodes) ==
    IF nodes = <<>> THEN [tree |-> T, content |-> C]
    ELSE LET node == Head(nodes)
             first_child == T.children[node][1]
         IN  IF /\ Len(T.children[node]) = 1
                /\ Len(T.children[first_child]) = 0
             THEN collapse_pass(remove_self(T, first_child),
                                [C EXCEPT ![node] = C[first_child]],
                                Tail(nodes))
             ELSE collapse_pass(T, C, Tail(nodes))

\* Lines 41-52: the first pass.
MergeSmall ==
    /\ post = "built"
    /\ content' = merge_pass(content, Subtree(Root))
    /\ post' = "merged"
    /\ UNCHANGED <<title, parent, children, recon_vars, eval_vars, stuck,
                   attr_vars, ser_vars, sparse, rendering, worker, figures,
                   oracle_calls, service>>

\* Lines 54-56: the second pass.
RemoveEmpty ==
    /\ post = "merged"
    /\ LET T == remove_pass(Tree, Subtree(Root))
       IN  /\ parent' = T.parent
           /\ children' = T.children
    /\ post' = "pruned"
    /\ UNCHANGED <<title, content, recon_vars, eval_vars, stuck,
                   attr_vars, ser_vars, sparse, rendering, worker, figures,
                   oracle_calls, service>>

\* Lines 58-62: the third pass.
CollapseSingle ==
    /\ post = "pruned"
    /\ LET r == collapse_pass(Tree, content, Subtree(Root))
       IN  /\ parent' = r.tree.parent
           /\ children' = r.tree.children
           /\ content' = r.content
    /\ post' = "collapsed"
    /\ UNCHANGED <<title, recon_vars, eval_vars, stuck,
                   attr_vars, ser_vars, sparse, rendering, worker, figures,
                   oracle_calls, service>>

\* build_hierarchical_tree_iteratively has returned doc_root: the
\* candidates, numbered in document order, hang under it in a tree whose
\* pre-order is the document order; titles and contents are any.
InitPost ==
    /\ \E n \in 1 .. MaxPostNodes :
       \E par \in [1 .. n -> 0 .. n] :
         /\ par[1] = Root
         /\ \A k \in 2 .. n : par[k] < k
         /\ \A k \in 2 .. n : par[k] \in Chain(par, k - 1)
         /\ title \in [1 .. n -> {"", "Methods"}]
         /\ parent = [x \in 0 .. n |-> IF x = Root THEN NoNode ELSE par[x]]
         /\ children = [x \in 0 .. n |->
                           SelectSeq([k \in 1 .. n |-> k],
                                     LAMBDA k : par[k] = x)]
         /\ content \in [0 .. n -> ContentLens]
    /\ post = "built"
    /\ stack = <<>>
    /\ attempts = 0
    /\ status = "returned"
    /\ EvalIdle
    /\ AttrIdle
    /\ SerIdle
    /\ SparseIdle
    /\ RenderIdle
    /\ WorkerIdle
    /\ NoFigures
    /\ NoCalls
    /\ ServiceIdle

NextPost ==
    \/ MergeSmall
    \/ RemoveEmpty
    \/ CollapseSingle

SpecPost == InitPost /\ [][NextPost]_vars

\* ------------------------------------------------ the tree service
\* server/service_tree_gen.py, generate: Flask serves each request in a
\* thread of its own, so two handlers interleave between their accesses
\* to Redis and to fallback_cache.

\* Most requests the service receives, and the handlers in flight at once.
MaxServed == 3
MaxThreads == 2

\* The urls asked for, and the trees a run of the pipeline can produce
\* (its text comes from the oracle).
Links == {"u1", "u2"}
TreeData == {"t1", "t2"}

\* hashlib.sha1(link.encode()).hexdigest()
sha1(link) == "sha1(" \o link \o ")"

\* link_sha1 = "v0.1" + hashlib.sha1(link.encode()).hexdigest()
link_sha1(link) == "v0.1" \o sha1(link)

Keys == {link_sha1(link) : link \in Links}

\* A key without a value, and the response of a handler still running.
NoEntry == [present |-> FALSE]
NoResponse == [tree_data |-> "", root_id |-> ""]

\* json.dumps(response_data) and json.loads(cached_response)
json_dumps(response_data) == [json |-> response_data]
json_loads(cached_response) == cached_response.json

\* The handler of thread r.
Handler(r) == service.req[r]

\* Lines 32-43: a free thread takes a request for a link.
Receive ==
    /\ service.served < MaxServed
    /\ \E r \in 1 .. MaxThreads : \E link \in Links :
        /\ Handler(r).pc \in {"free", "done"}
        /\ service' = [service EXCEPT
               !.served = @ + 1,
               !.req[r] = [pc |-> "get", link |-> link,
                           later |-> service.completed[link],
                           response |-> NoResponse]]
    /\ UNCHANGED <<title, parent, children, recon_vars, eval_vars, stuck,
                   attr_vars, ser_vars, sparse, rendering, worker, figures,
                   oracle_calls, post_vars>>

\* Lines 46-54: redis_client.get, or fallback_cache.get when the get
\* raised ConnectionError; a value found is the response.
Lookup ==
    /\ \E r \in 1 .. MaxThreads :
        /\ Handler(r).pc = "get"
        /\ LET key == link_sha1(Handler(r).link)
               cached_response == IF service.redis_up
                                  THEN service.redis[key]
                                  ELSE service.fallback_cache[key]
           IN  IF cached_response.present
               THEN service' = [service EXCEPT
                       !.req[r].pc = "done",
                       !.req[r].response =
                           IF service.redis_up
                           THEN json_loads(cached_response.value)
                           ELSE cached_response.value]
               ELSE service' = [service EXCEPT !.req[r].pc = "run"]
    /\ UNCHANGED <<title, parent, children, recon_vars, eval_vars, stuck,
                   attr_vars, ser_vars, sparse, rendering, worker, figures,
                   oracle_calls, post_vars>>

\* Lines 57-64: the pipeline runs and the response is put together.
RunPipeline ==
    /\ \E r \in 1 .. MaxThreads : \E tree_data \in TreeData :
        /\ Handler(r).pc = "run"
        /\ service' = [service EXCEPT
               !.runs[Handler(r).link] = @ + 1,
               !.req[r].pc = "set",
               !.req[r].response =
                   [tree_data |-> tree_data,
                    root_id |-> link_sha1(Handler(r).link)]]
    /\ UNCHANGED <<title, parent, children, recon_vars, eval_vars, stuck,
                   attr_vars, ser_vars, sparse, rendering, worker, figures,
                   oracle_calls, post_vars>>

\* Lines 67-73: redis_client.set, or the write to fallback_cache when the
\* set raised ConnectionError; then the response is returned.
Store ==
    /\ \E r \in 1 .. MaxThreads :
        /\ Handler(r).pc = "set"
        /\ LET key == link_sha1(Handler(r).link)
               response_data == Handler(r).response
               answered == [service EXCEPT
                               !.req[r].pc = "done",
                               !.completed[Handler(r).link] = TRUE]
           IN  IF service.redis_up
               THEN service' = [answered EXCEPT
                       !.redis[key] =
                           [present |-> TRUE,
                            value |-> json_dumps(response_data)]]
               ELSE service' = [answered EXCEPT
                       !.fallback_cache[key] =
                           [present |-> TRUE, value |-> response_data]]
    /\ UNCHANGED <<title, parent, children, recon_vars, eval_vars, stuck,
                   attr_vars, ser_vars, sparse, rendering, worker, figures,
                   oracle_calls, post_vars>>

\* The Redis server becomes unreachable, or reachable again; it keeps
\* its entries.
RedisFlips ==
    /\ service' = [service EXCEPT !.redis_up = ~@, !.outage = TRUE]
    /\ UNCHANGED <<title, parent, children, recon_vars, eval_vars, stuck,
                   attr_vars, ser_vars, sparse, rendering, worker, figures,
                   oracle_calls, post_vars>>

\* The service has started: both caches are empty, Redis is reachable or
\* not (lines 24-30), no request has arrived.
InitService ==
    /\ \E up \in BOOLEAN :
         service = [served |-> 0,
                    redis_up |-> up,
                    outage |-> ~up,
                    redis |-> [k \in Keys |-> NoEntry],
                    fallback_cache |-> [k \in Keys |-> NoEntry],
                    runs |-> [link \in Links |-> 0],
                    completed |-> [link \in Links |-> FALSE],
                    req |-> [r \in 1 .. MaxThreads |->
                                [pc |-> "free", link |-> "",
                                 later |-> FALSE,
                                 response |-> NoResponse]]]
    /\ TreeIdle
    /\ ReconIdle
    /\ EvalIdle
    /\ AttrIdle
    /\ SerIdle
    /\ SparseIdle
    /\ RenderIdle
    /\ WorkerIdle
    /\ NoFigures
    /\ NoCalls
    /\ PostIdle

NextService ==
    \/ Receive
    \/ Lookup
    \/ RunPipeline
    \/ Store
    \/ RedisFlips

SpecService == InitService /\ [][NextService]_vars

\* The same program under the scheduling of a sequential run: a step that
\* can be taken is taken.
FairSpec == Spec /\ WF_vars(Next)

\* ------------------------------------------------------------ properties
\* A call of find_and_attach_children is about to return.
AtReturn == Running /\ Top.pc = "ret"

\* The call at the top acted on indices that are positions of its list.
DetectedInC ==
    /\ Top.returned # {}
    /\ Top.returned \subseteq 0 .. Len(Top.potential_children) - 1

Min(S) == CHOOSE m \in S : \A y \in S : m <= y
Max(S) == CHOOSE m \in S : \A y \in S : m >= y

\* The candidates of list cs at the 0-based positions in S, in list order.
AtIndices(cs, S) ==
    LET kept == SelectSeq([k \in 1 .. Len(cs) |-> k - 1],
                          LAMBDA i : i \in S)
    IN  [k \in 1 .. Len(kept) |-> cs[kept[k] + 1]]

\* How often node c is registered in a child list of the tree.
Occurrences(c) ==
    Cardinality({xk \in Nodes \X (1 .. Len(title)) :
                    /\ xk[2] <= Len(children[xk[1]])
                    /\ children[xk[1]][xk[2]] = c})

\* C1: when a call find_and_attach_children(P, C) returns, every element of
\* C is registered exactly once in the tree, all of C is in the subtree of P,
\* and the pre-order traversal of that subtree visits the elements of C in
\* their order in C.
C1_NoDropDupReorder ==
    AtReturn =>
        /\ SelectSeq(Subtree(Top.parent_node),
                     LAMBDA x : x \in Range(Top.potential_children))
               = Top.potential_children
        /\ \A c \in Range(Top.potential_children) : Occurrences(c) = 1

\* A three-candidate reconstruction is about to return a chain three deep.
C1_Witness ==
    /\ AtReturn
    /\ Len(stack) = 1
    /\ Len(title) = 3
    /\ parent[1] = Root /\ parent[2] = 1 /\ parent[3] = 2
\* The frames of the calls that went on to act on an oracle answer.
Acted(f) == f.potential_children # <<>> /\ f.pc \in {"loop", "ret"}

\* The position in a list of n candidates that Python index i addresses.
Position(i, n) == IF i < 0 THEN i + n ELSE i

\* C3: the candidates treated as top-level are exactly those at the positions
\* the oracle's indices address, whatever titles the candidates share.
C3_IndexAddressing ==
    \A k \in 1 .. Len(stack) :
        (Acted(stack[k]) /\ stack[k].returned # {}) =>
            Range(stack[k].cnwi)
                = {Position(i, Len(stack[k].potential_children)) :
                       i \in stack[k].returned}

\* C4: at the return of a call whose oracle detected top-level indices, each
\* candidate after the last detected one is in the subtree of the last
\* detected node and is not a child of P.
C4_TrailingUnderLast ==
    (AtReturn /\ DetectedInC) =>
        LET cs == Top.potential_children
            last == Max(Top.returned)
        IN  \A j \in (last + 1) .. (Len(cs) - 1) :
                /\ cs[j + 1] \in Range(Subtree(cs[last + 1]))
                /\ parent[cs[j + 1]] # Top.parent_node
                /\ cs[j + 1] \notin Range(children[Top.parent_node])

\* C5: at the return of a call, each candidate strictly between two
\* consecutive detected indices a < b is in the subtree of C[a] and in the
\* subtree of no other detected top-level node.
C5_ScopeBetween ==
    (AtReturn /\ DetectedInC) =>
        LET cs == Top.potential_children
            det == Top.returned
        IN  \A a \in det : \A b \in det :
                (a < b /\ \A c \in det : ~(a < c /\ c < b)) =>
                    \A j \in (a + 1) .. (b - 1) :
                        /\ cs[j + 1] \in Range(Subtree(cs[a + 1]))
                        /\ \A d \in det \ {a} :
                               cs[j + 1] \notin Range(Subtree(cs[d + 1]))

\* C6: at the return of a call whose oracle detected indices i_1 < ... < i_k,
\* the children of P are the leading candidates C[0..i_1-1] followed by
\* C[i_1], ..., C[i_k], once each and in candidate order.
C6_ChildrenOfParent ==
    (AtReturn /\ DetectedInC) =>
        children[Top.parent_node]
            = Slice(Top.potential_children, 0, Min(Top.returned))
                  \o AtIndices(Top.potential_children, Top.returned)

\* C7: a call whose oracle answered a non-empty list with the empty list has
\* made every candidate a child of P in list order, has made no recursive
\* call, and is at its return with no callee pending.
C7_EmptyAnswerFlat ==
    \A k \in 1 .. Len(stack) :
        (Acted(stack[k]) /\ stack[k].returned = {}) =>
            /\ children[stack[k].parent_node] = stack[k].potential_children
            /\ \A c \in Range(stack[k].potential_children) :
                   parent[c] = stack[k].parent_node
            /\ stack[k].nrec = 0
            /\ stack[k].pc = "ret"
            /\ k = Len(stack)

\* A nested call on two candidates got the empty answer.
C7_Witness ==
    /\ AtReturn
    /\ Len(stack) >= 2
    /\ Top.returned = {}
    /\ Len(Top.potential_children) = 2

\* Every call on the stack got a list shorter than its caller's.
StrictlyShorter ==
    \A k \in 1 .. (Len(stack) - 1) :
        Len(stack[k + 1].potential_children)
            < Len(stack[k].potential_children)

\* C8: every recursive call receives a strictly shorter candidate list, and
\* the reconstruction ends (returned, or the oracle's error propagated).
C8_ShorterAndTerminates ==
    [](StrictlyShorter) /\ <>(status # "running")

\* Three calls are nested.
C8_Witness == Len(stack) = 3 /\ Top.pc = "call"

\* The oracle answered call f with the full index set of its list.
SelfCovering(f) ==
    /\ Acted(f)
    /\ f.returned = 0 .. (Len(f.potential_children) - 1)

\* C9, as stated: a call answered with the full index set of its list never
\* gets to return normally.
C9_SelfCoveringFails == ~(AtReturn /\ SelfCovering(Top))

\* C9, amended: a call answered with the full index set raises no error and
\* makes no recursive call, and at its return every candidate is a child
\* of P, in list order.
C9_SelfCoveringFlat ==
    \A k \in 1 .. Len(stack) :
        SelfCovering(stack[k]) =>
            /\ k = Len(stack)
            /\ stack[k].nrec = 0
            /\ status = "running"
            /\ stack[k].pc = "ret" =>
                   children[stack[k].parent_node]
                       = stack[k].potential_children

\* A two-candidate list classified [0, 1] is about to return.
C9_Witness ==
    /\ AtReturn
    /\ SelfCovering(Top)
    /\ Len(Top.potential_children) = 2

\* C10: no call acts on an answer holding an index outside 0..len(C)-1.
C10_OutOfRangeIsError ==
    \A k \in 1 .. Len(stack) :
        Acted(stack[k]) =>
            stack[k].returned
                \subseteq 0 .. (Len(stack[k].potential_children) - 1)
\* The document left build_html_tree: returned, serialized or pushed.
Delivered == status \in {"returned", "serialized", "pushed"}

\* C11: a failing classification call is attempted at most MaxAttempts times
\* for one candidate list; when all attempts failed the error has left
\* find_and_attach_children with its calls still pending, and from then on
\* no tree is returned, serialized or pushed.
C11_RetryThenPropagate ==
    /\ [](/\ attempts <= MaxAttempts
          /\ (attempts = MaxAttempts) <=> (status = "error")
          /\ status = "error" => (stack # <<>> /\ Top.pc = "call")
          /\ Delivered => (attempts = 0 /\ stack = <<>>))
    /\ [][status = "error" => status' = "error"]_vars

\* The third attempt of a nested call failed after part of the tree was
\* attached.
C11_Witness ==
    /\ status = "error"
    /\ attempts = MaxAttempts
    /\ Len(stack) >= 2
    /\ children[Root] # <<>>

\* The nodes that were handed to the evaluation.
InputNodes == {x \in 1 .. MaxEvalNodes : x = 1 \/ parent[x] # NoNode}

RECURSIVE AncestorOrSelf(_, _)
AncestorOrSelf(x, y) ==
    IF x = y THEN TRUE
    ELSE IF y = 1 \/ parent[y] = NoNode THEN FALSE
    ELSE AncestorOrSelf(x, parent[y])

\* The nodes that can never be ready: the stubbed ones and their ancestors.
Blocked == {x \in InputNodes : \E y \in stuck : AncestorOrSelf(x, y)}

\* Every invocation of the round has ended and none was ready.
RoundWithoutProgress ==
    /\ eval_status = "running"
    /\ \A x \in queue : pc[x] = "false"

\* C13: when f returns false on every invocation for some node, the
\* evaluation ends with DependencyDeadlock; it does so at the end of the
\* first round that retires no node, the nodes it names are the stubbed
\* nodes and their ancestors, and nothing is dispatched after it.
C13_DeadlockDetected ==
    /\ <>(eval_status = "deadlock")
    /\ [](eval_status # "done")
    /\ [](eval_status = "deadlock" =>
             (queue = Blocked /\ retired = InputNodes \ Blocked))
    /\ [][RoundWithoutProgress => eval_status' = "deadlock"]_vars
    /\ [][(eval_status # "deadlock" /\ eval_status' = "deadlock")
              => (RoundWithoutProgress /\ retired' = retired)]_vars
    /\ [][eval_status # "deadlock"]_vars

\* The deadlock was declared after a round that retired a sibling, with a
\* stubbed node and its parent named.
C13_Witness ==
    /\ eval_status = "deadlock"
    /\ retired # {}
    /\ Cardinality(queue) = 2

\* C14: no error leaves an invocation of f whose oracle call failed.
C14_NoErrorLeaves == \A x \in EvalDomain : pc[x] # "raised"

\* The operations that construct an annotation.
Constructing == {"construct", "set_reference_obj", "set_relevant_obj"}

\* C15: a node holds at most one annotation of each kind, registered by one
\* construction; a construction of a kind the node already carries raises
\* and leaves the annotation map, the existing annotation included,
\* unchanged.
C15_OneOfEachKind ==
    /\ [](\A x \in DOMAIN attrs : \A k \in Kinds :
             /\ attrs[x][k].made <= 1
             /\ attrs[x][k].present <=> (attrs[x][k].made = 1))
    /\ [][(/\ last_op'.op \in Constructing
           /\ attrs[last_op'.node][last_op'.kind].present)
              => (last_op'.raised /\ attrs' = attrs)]_vars

\* set_reference_obj was called on a node that carried a Reference with
\* contents, and raised.
C15_Witness ==
    /\ last_op.op = "set_reference_obj"
    /\ last_op.raised
    /\ attrs[last_op.node]["Reference"].value # <<>>

\* render_to_json has returned.
Serialized == render_arg # NoNode

\* The ids of the nodes reachable from the rendered node by child lists.
ReachableIds == {str(x) : x \in Range(Subtree(render_arg))}

\* C16: nodeDict has one entry for each node reachable from the rendered
\* node, keyed by the node's id, and no other; rootId is the id of the
\* rendered node; each entry lists the ids of the node's children in
\* child-list order.
C16_OneEntryPerNode ==
    Serialized =>
        /\ DOMAIN wire.nodeDict = ReachableIds
        /\ Cardinality(DOMAIN wire.nodeDict)
               = Cardinality(Range(Subtree(render_arg)))
        /\ wire.metadata.rootId = str(render_arg)
        /\ \A x \in Range(Subtree(render_arg)) :
               /\ wire.nodeDict[str(x)].id = str(x)
               /\ wire.nodeDict[str(x)].children
                      = [k \in 1 .. Len(children[x]) |-> str(children[x][k])]

\* A tree with a node of two children and a grandchild was serialized from
\* its root.
C16_Witness ==
    /\ Serialized
    /\ render_arg = 1
    /\ Len(children[1]) = 2
    /\ Cardinality(DOMAIN wire.nodeDict) = 4

\* C17: every id in a parent field or in a children list is a key of
\* nodeDict, and the entry of the rendered node is the only one whose parent
\* is null.
C17_ClosedAndRooted ==
    Serialized =>
        /\ \A s \in DOMAIN wire.nodeDict :
               /\ wire.nodeDict[s].parent \in DOMAIN wire.nodeDict \cup {Null}
               /\ Range(wire.nodeDict[s].children)
                      \subseteq DOMAIN wire.nodeDict
        /\ {s \in DOMAIN wire.nodeDict : wire.nodeDict[s].parent = Null}
               = {wire.metadata.rootId}

\* C18: entry c names p in its parent field exactly when p is an entry
\* whose children list contains c's id, and the keys are the ids of the
\* serialized nodes.
C18_ParentChildRoundTrip ==
    Serialized =>
        /\ DOMAIN wire.nodeDict = ReachableIds
        /\ \A c \in DOMAIN wire.nodeDict :
           \A p \in (DOMAIN wire.nodeDict \cup {wire.nodeDict[c].parent})
                       \ {Null} :
               (wire.nodeDict[c].parent = p)
                   <=> (/\ p \in DOMAIN wire.nodeDict
                        /\ c \in Range(wire.nodeDict[p].children))

\* C19: each node is in the child list of at most one node and occurs there
\* once, and it is in the child list of n exactly when its parent
\* back-reference is n.
C19_ParentChildAgree ==
    \A c \in DOMAIN parent :
        /\ Occurrences(c) <= 1
        /\ \A n \in DOMAIN children :
               (c \in Range(children[n])) <=> (parent[c] = n)

\* C20: with the oracle of the five-candidate document, a reconstruction
\* that returns has built exactly this tree: A and C the children of P in
\* that order, B the only child of A, D the only child of C, E the only
\* child of D, and no other link.
C20_FiveCandidateTree ==
    Delivered =>
        /\ children = [x \in Nodes |->
                          CASE x = Root -> <<1, 3>>
                            [] x = 1 -> <<2>>
                            [] x = 3 -> <<4>>
                            [] x = 4 -> <<5>>
                            [] OTHER -> <<>>]
        /\ parent = [x \in Nodes |->
                        CASE x = Root -> NoNode
                          [] x \in {1, 3} -> Root
                          [] x = 2 -> 1
                          [] x = 4 -> 3
                          [] OTHER -> 4]


\* C2: while the section summary of a node is being computed, the
\* invocation of f on each of its children has returned true.
C2_ParentAfterChildren ==
    \A x \in queue :
        pc[x] \in {"section_points", "section_short"} =>
            \A k \in 1 .. Len(children[x]) :
                pc[children[x][k]] = "true" \/ children[x][k] \in retired

\* C21: a call on a single-element list [X] makes no recursive call, has no
\* callee pending, and at its return X is a direct child of the parent,
\* whatever the oracle answered.
C21_SingleElement ==
    \A k \in 1 .. Len(stack) :
        Len(stack[k].potential_children) = 1 =>
            /\ stack[k].nrec = 0
            /\ k = Len(stack)
            /\ stack[k].pc = "ret" =>
                   /\ parent[stack[k].potential_children[1]]
                          = stack[k].parent_node
                   /\ Occurrences(stack[k].potential_children[1]) = 1
                   /\ stack[k].potential_children[1]
                          \in Range(children[stack[k].parent_node])

\* A nested call on one candidate, answered [0], is about to return.
C21_Witness ==
    /\ AtReturn
    /\ Len(stack) >= 2
    /\ Len(Top.potential_children) = 1
    /\ Top.returned = {0}

\* C22: a node whose Summary content is the failure placeholder has the
\* placeholder in the summary tab of its Rendered, whatever content the
\* node has.
C22_PlaceholderRendered ==
    (rendering.done
        /\ rendering.summary.content = "Failed to generate summary") =>
            rendering.rendered.tabs.summary = "Failed to generate summary"

\* The request that the step handled found its file_url in the cache.
HitStep ==
    worker.pdf_papers[worker'.reply.file_url] # <<>>

\* C23: a request whose file_url is in the cache is answered with the stored
\* tree_url and cached = true, with no call of build_html_tree or
\* push_tree_data and no change of the cache; a request that misses and is
\* answered with success was built and pushed once, is answered with
\* cached = false and leaves one entry for its file_url, so that the next
\* request for it is a hit.
C23_CacheAroundBuild ==
    /\ [](\A u \in DOMAIN worker.pdf_papers :
             Len(worker.pdf_papers[u]) <= 1)
    /\ [][IF HitStep
          THEN /\ worker'.reply.cached
               /\ worker'.reply.status = "success"
               /\ worker'.reply.tree_url
                      = Head(worker.pdf_papers[worker'.reply.file_url])
               /\ worker'.builds = worker.builds
               /\ worker'.pushes = worker.pushes
               /\ worker'.pdf_papers = worker.pdf_papers
          ELSE /\ ~worker'.reply.cached
               /\ worker'.builds[worker'.reply.file_url]
                      = worker.builds[worker'.reply.file_url] + 1
               /\ worker'.reply.status = "success" =>
                      /\ worker'.pushes[worker'.reply.file_url]
                             = worker.pushes[worker'.reply.file_url] + 1
                      /\ worker'.pdf_papers[worker'.reply.file_url]
                             = <<worker'.reply.tree_url>>]_vars

\* A file_url was built and stored after a failed attempt, and a later
\* request for it was answered from the cache.
C23_Witness ==
    /\ worker.reply.cached
    /\ worker.builds[worker.reply.file_url] = 2
    /\ worker.pushes[worker.reply.file_url] = 1

\* Node x is in an invocation of generate_summary_for_node in the state
\* before the step and the invocation has returned false after it.
ReturnsFalse(x) == pc[x] # "false" /\ pc'[x] = "false"

\* C24: the step in which an invocation of generate_summary_for_node
\* returns false comes straight from the start of the invocation, with no
\* oracle call made, and leaves every annotation, every title and every
\* parent and child link as they were.
C24_FalseChangesNothing ==
    [][\A x \in EvalDomain :
         ReturnsFalse(x) =>
             /\ pc[x] = "idle"
             /\ UNCHANGED <<summary, title, parent, children>>]_vars

\* A section whose child has no annotation has returned false in a round
\* in which another invocation has annotated a node.
C24_Witness ==
    \E x \in queue :
        /\ pc[x] = "false"
        /\ children[x] # <<>>
        /\ ~summary[x].present
        /\ \E y \in queue : y # x /\ summary[y].present

\* C25: a node whose invocation of generate_summary_for_node has returned
\* true carries a Summary annotation, from the return on.
C25_TrueHasSummary ==
    \A x \in EvalDomain : pc[x] = "true" => summary[x].present

\* A figure, a leaf and a section have each returned true.
C25_Witness ==
    /\ \E x \in figures : pc[x] = "true"
    /\ \E x \in EvalDomain \ figures :
          pc[x] = "true" /\ children[x] = <<>>
    /\ \E x \in EvalDomain \ figures :
          /\ pc[x] = "true"
          /\ \E k \in 1 .. Len(children[x]) :
                children[x][k] \in 1 .. MaxEvalNodes

\* The candidates that build_html_tree handed to the reconstruction.
Candidates == DOMAIN title

\* C26: the calls of the classification oracle that returned an answer are
\* at most as many as the candidates of the document.
C26_CallsAtMostCandidates == oracle_calls <= Cardinality(Candidates)

\* C27: no step of the evaluation changes the parent of a node or the child
\* list of a node, so the tree has the same nodes and the same links after
\* the evaluation as before it.
C27_LinksUnchanged == [][parent' = parent /\ children' = children]_vars

\* Node x of the tree has no title, no content and no children.
EmptyNode(x) == title_of(x) = "" /\ content[x] = 0 /\ children[x] = <<>>

\* C28: when the three post-processing passes have run, no node of the tree
\* rooted at doc_root has an empty title, empty content and no children.
C28_NoEmptyNode ==
    post = "collapsed" => \A x \in Range(Subtree(Root)) : ~EmptyNode(x)

\* Handlers r and q are both at work on the same link.
Concurrent(r, q) ==
    /\ r # q
    /\ Handler(r).pc # "free"
    /\ Handler(q).pc # "free"
    /\ Handler(r).link = Handler(q).link

\* C29: while Redis has been reachable throughout, two handlers at work
\* on the same link do not both run the pipeline, and when both have
\* answered they have given the same response.
C29_OncePerLink ==
    ~service.outage =>
        \A r, q \in 1 .. MaxThreads :
            Concurrent(r, q) =>
                /\ ~(Handler(r).pc \in {"set"} /\ Handler(q).pc \in {"set"})
                /\ (Handler(r).pc = "done" /\ Handler(q).pc = "done") =>
                       Handler(r).response = Handler(q).response

\* C30: a request that arrived after a request for the same link had been
\* answered with a computed response is answered from a cache: its handler
\* never gets to run the pipeline.
C30_LaterServedFromCache ==
    \A r \in 1 .. MaxThreads :
        Handler(r).later => Handler(r).pc \notin {"run", "set"}
====
